---- MODULE Spec2Model ----
(***************************************************************************)
(* A model of swap/src/database.rs: the sled-backed store of the latest    *)
(* swap state and of the peer-id of every swap.  The two sled trees are    *)
(* modelled with their in-memory image (what get/insert/compare_and_swap   *)
(* see) and their durable image (what a reopen after a crash sees).        *)
(* Callers are concurrent tasks; every await point and every call into     *)
(* sled that another thread can interleave with is a step of its own.      *)
(***************************************************************************)
EXTENDS Integers, Sequences, FiniteSets, TLC

\* ------------------------------------------------------------------ bounds
\* Number of distinct swap ids the callers use.
NumUuids == 2
\* Number of calls the tasks start in one run.
MaxCalls == 3
\* Number of crash/reopen cycles in one run.
MaxCrashes == 1

\* The concurrent callers of the one Database value.
Procs == {"t1", "t2"}

\* ------------------------------------------------------------- data types
Uuid == 1..NumUuids

\* Option<T>
None == <<>>
Some(v) == <<v>>

\* anyhow::Result<T>
Ok(v) == <<"Ok", v>>
Err(e) == <<"Err", e>>
IsOk(r) == r[1] = "Ok"
Unit == "()"
\* The value of ret while the call has not returned.
Pending == <<"Pending", "">>

\* The per-role protocol states.  "Started" stands for every variant other than
\* Done(_); the store never looks further into a state than that.
Alice == {"Started", "Done"}
Bob == {"Started", "Done"}

\* enum Swap { Alice(Alice), Bob(Bob) }
Swap == [tag : {"Alice"}, inner : Alice] \cup [tag : {"Bob"}, inner : Bob]
NoSwap == [tag |-> "none", inner |-> "none"]

\* A PeerId is the bytes of a multihash.
PeerId == {<<18, 1>>, <<18, 2>>}
NoPeer == <<>>

\* Error values (the message or the typed error anyhow carries).
NotAlice == "NotAlice"
NotBob == "NotBob"
NotFound == "not found in database"
StoredSwapChanged == "Stored swap somehow changed, aborting saving"
CouldNotFlush == "Could not flush db"
CouldNotDeserialize == "Could not deserialize"

\* Swap::try_into_alice
try_into_alice(swap) ==
    IF swap.tag = "Alice" THEN Ok(swap.inner) ELSE Err(NotAlice)

\* Swap::try_into_bob
try_into_bob(swap) ==
    IF swap.tag = "Bob" THEN Ok(swap.inner) ELSE Err(NotBob)

\* ------------------------------------------------- serialize / deserialize
\* serde_cbor, modelled on short byte strings: a Uuid is a byte string (major
\* type 2), a Swap is a one-entry map (major type 5) from the variant of the
\* role to the variant of the state, a String is a text string (major type 3)
\* whose header carries its length.
RoleByte(tag) == IF tag = "Alice" THEN 65 ELSE 66
StateByte(inner) == IF inner = "Done" THEN 68 ELSE 83

serialize_Uuid(swap_id) == <<80, swap_id>>

\* A serialization that drops the state of the role.
serialize_Swap_lossy(state) == <<161, RoleByte(state.tag), StateByte("Started")>>

serialize_Swap(state) == <<161, RoleByte(state.tag), StateByte(state.inner)>>

serialize_String(str) == <<96 + Len(str)>> \o str

deserialize_Uuid(v) ==
    IF Len(v) = 2 /\ v[1] = 80 /\ v[2] \in Uuid
    THEN Ok(v[2])
    ELSE Err(CouldNotDeserialize)

deserialize_Swap(v) ==
    IF Len(v) = 3 /\ v[1] = 161 /\ v[2] \in {65, 66} /\ v[3] \in {68, 83}
    THEN Ok([tag |-> IF v[2] = 65 THEN "Alice" ELSE "Bob",
             inner |-> IF v[3] = 68 THEN "Done" ELSE "Started"])
    ELSE Err(CouldNotDeserialize)

deserialize_String(v) ==
    IF Len(v) >= 1 /\ v[1] = 96 + (Len(v) - 1)
    THEN Ok(SubSeq(v, 2, Len(v)))
    ELSE Err(CouldNotDeserialize)

\* PeerId::to_string and PeerId::from_str: a textual encoding, one character
\* of the alphabet per byte, and its parser.
Alphabet == 49..122
to_string(peer_id) == [i \in DOMAIN peer_id |-> peer_id[i] + 48]
from_str(str) ==
    IF \A i \in DOMAIN str : str[i] \in Alphabet
    THEN LET bytes == [i \in DOMAIN str |-> str[i] - 48]
         IN  IF bytes \in PeerId THEN Ok(bytes) ELSE Err("invalid multihash")
    ELSE Err("invalid base58")

\* ------------------------------------------------------------- sled::Tree
\* A tree is a function from the keys it holds to their values.
EmptyTree == << >>

tree_get(tree, key) ==
    IF key \in DOMAIN tree THEN Some(tree[key]) ELSE None

\* An insert that leaves the key it writes as the only key of the tree.
tree_insert_alone(tree, key, value) == [k \in {key} |-> value]

\* An insert that keeps the value a key already has.
tree_insert_if_absent(tree, key, value) ==
    [k \in DOMAIN tree \cup {key} |-> IF k \in DOMAIN tree THEN tree[k] ELSE value]

tree_insert(tree, key, value) ==
    [k \in DOMAIN tree \cup {key} |-> IF k = key THEN value ELSE tree[k]]

\* A compare_and_swap that only creates: it fails on a key that has a value.
compare_and_swap_create_only(tree, key, old, new) ==
    IF tree_get(tree, key) = None /\ old = None
    THEN [res |-> Ok(Unit), tree |-> tree_insert(tree, key, new)]
    ELSE [res |-> Err(StoredSwapChanged), tree |-> tree]

\* A compare_and_swap that does not compare: the write always lands.
compare_and_swap_blind(tree, key, old, new) ==
    [res |-> Ok(Unit), tree |-> tree_insert(tree, key, new)]

\* A compare_and_swap that also refuses to replace a record by one of the
\* other role.
compare_and_swap_same_role(tree, key, old, new) ==
    IF tree_get(tree, key) = old /\ (old = None \/ old[1][2] = new[2])
    THEN [res |-> Ok(Unit), tree |-> tree_insert(tree, key, new)]
    ELSE [res |-> Err(StoredSwapChanged), tree |-> tree]

\* Tree::compare_and_swap(key, old, Some(new)): the inner Result and the tree
\* afterwards.  The comparison is on the stored bytes.
compare_and_swap(tree, key, old, new) ==
    IF tree_get(tree, key) = old
    THEN [res |-> Ok(Unit), tree |-> tree_insert(tree, key, new)]
    ELSE [res |-> Err(StoredSwapChanged), tree |-> tree]

\* Lexicographic order on keys, the order Tree::iter walks in.
RECURSIVE KeyLess(_, _)
KeyLess(a, b) ==
    IF a = <<>> THEN b # <<>>
    ELSE IF b = <<>> THEN FALSE
    ELSE IF Head(a) # Head(b) THEN Head(a) < Head(b)
    ELSE KeyLess(Tail(a), Tail(b))

\* Tree::iter: the (key, value) pairs in key order.
RECURSIVE tree_iter(_)
tree_iter(tree) ==
    IF DOMAIN tree = {} THEN <<>>
    ELSE LET first == CHOOSE k \in DOMAIN tree :
                          \A j \in DOMAIN tree \ {k} : KeyLess(k, j)
             rest == [k \in DOMAIN tree \ {first} |-> tree[k]]
         IN  <<<<first, tree[first]>>>> \o tree_iter(rest)

\* ------------------------------------------------------------------ state
VARIABLES
    swaps,        \* Database.swaps: the in-memory image of the tree "swaps"
    peers,        \* Database.peers: the in-memory image of the tree "peers"
    disk,         \* the durable image of both trees: what a reopen finds
    pc,           \* where each task is in its call
    call,         \* the call each task is in, or has last finished
    old_value,    \* insert_latest_state's local old_value
    ret,          \* what the call returned
    calls,        \* number of calls started
    crashes,      \* number of crash/reopen cycles
    raced,        \* history: who had read the same old_value when the task wrote
    overlapped,   \* history: whose insert_latest_state on the same id overlapped
    superseded,   \* history: a later write to the same key took effect
    transport_op,     \* the call of TorTcpConfig in progress and what it returned
    transport_calls,  \* the calls that call has made to the inner transport
                      \* and to the SOCKS5 proxy
    tor_conn,         \* every copy of the UnauthenticatedConnection: where its
                      \* into_authenticated_connection is and what it returned
    tor_requests,     \* what each copy has sent to the proxy and the control port
    tor_service,      \* the last ADD_ONION of an AuthenticatedConnection
    codec_io,         \* the frame on the stream between the two Codecs
    codec_op,         \* the last call of Codec: the length of its frame, the
                      \* message that was written, what the call returned
    upgrade           \* the connection the built transport is setting up: how
                      \* far its upgrades are, the time they have taken, and
                      \* what the transport has yielded for it

\* The state of the network side.
transportvars == <<transport_op, transport_calls>>
torvars == <<tor_conn, tor_requests, tor_service>>
codecvars == <<codec_io, codec_op>>
netvars == <<transportvars, torvars, codecvars, upgrade>>

vars == <<swaps, peers, disk, pc, call, old_value, ret, calls, crashes,
          raced, overlapped, superseded, netvars>>

NoCall == [op |-> "none", swap_id |-> 0, state |-> NoSwap, peer_id |-> NoPeer]

\* The locals key and new_value of the call a task is in.
key(p) == serialize_Uuid(call[p].swap_id)
new_value(p) == serialize_Swap(call[p].state)
peer_value(p) == serialize_String(to_string(call[p].peer_id))

\* The task has written its value into the tree named by its call.
Wrote(q, op, swap_id) ==
    /\ call[q].op = op
    /\ call[q].swap_id = swap_id
    /\ pc[q] \in {"flush", "done", "crashed"}
    /\ ret[q] # Err(StoredSwapChanged)

\* The task is inside insert_latest_state(swap_id, _).
InFlightInsert(q, swap_id) ==
    /\ call[q].op = "insert_latest_state"
    /\ call[q].swap_id = swap_id
    /\ pc[q] \in {"cas", "flush"}

\* No call of the transport yet.
NoTransportOp == [op |-> "none", self |-> <<>>, addr |-> <<>>, ret |-> Pending]

\* Copies of the UnauthenticatedConnection a caller makes (the type is Copy).
MaxConns == 2
ConnIds == 1..MaxConns

DEFAULT_SOCKS5_PORT == 9050
DEFAULT_CONTROL_PORT == 9051

\* SocketAddrV4::new(Ipv4Addr::LOCALHOST, port)
Localhost(port) == <<<<127, 0, 0, 1>>, port>>

\* impl Default for UnauthenticatedConnection
UnauthenticatedConnection_default ==
    [socks5_address |-> Localhost(DEFAULT_SOCKS5_PORT),
     control_port_address |-> Localhost(DEFAULT_CONTROL_PORT)]

\* A copy on which into_authenticated_connection has not been called.
NewConn(self) ==
    [self |-> self, pc |-> "new", state |-> "Disconnected", text |-> None,
     failed_at |-> "none", ret |-> Pending]

\* No ADD_ONION yet.
NoService ==
    [op |-> "none", conn |-> 0, tor_key |-> "", listeners |-> <<>>, ret |-> Pending]

\* No connection yet.
NoUpgrade ==
    [stage |-> "none", via |-> "", elapsed |-> 0, steps |-> <<>>, peer |-> "",
     muxer |-> "", ret |-> Pending]

\* Nothing on the stream.
NoFrame == [len_prefix |-> <<>>, data |-> <<>>]

\* The network side before its first call.
NetInit ==
    /\ transport_op = NoTransportOp
    /\ transport_calls = <<>>
    /\ tor_conn = [c \in ConnIds |-> NewConn(UnauthenticatedConnection_default)]
    /\ tor_requests = [c \in ConnIds |-> <<>>]
    /\ tor_service = NoService
    /\ upgrade = NoUpgrade
    /\ codec_io = NoFrame
    /\ codec_op = [op |-> "none", len |-> 0, written |-> None, ret |-> Pending]

\* No task has called anything yet.
TasksInit ==
    /\ NetInit
    /\ pc = [p \in Procs |-> "idle"]
    /\ call = [p \in Procs |-> NoCall]
    /\ old_value = [p \in Procs |-> None]
    /\ ret = [p \in Procs |-> Pending]
    /\ calls = 0
    /\ crashes = 0
    /\ raced = [p \in Procs |-> {}]
    /\ overlapped = [p \in Procs |-> {}]
    /\ superseded = [p \in Procs |-> FALSE]

\* sled::open on a fresh path, then open_tree twice: both trees empty.
Init ==
    /\ swaps = EmptyTree
    /\ peers = EmptyTree
    /\ disk = [swaps |-> EmptyTree, peers |-> EmptyTree]
    /\ TasksInit

\* The trees "swaps" an earlier run can have left at the path: any ids, each
\* with the encoding of any record.
StoredTrees ==
    UNION {[keys -> {serialize_Swap(state) : state \in Swap}] :
             keys \in SUBSET {serialize_Uuid(swap_id) : swap_id \in Uuid}}

\* sled::open on the path of an existing store.
InitStored ==
    /\ swaps \in StoredTrees
    /\ peers = EmptyTree
    /\ disk = [swaps |-> swaps, peers |-> EmptyTree]
    /\ TasksInit

\* A task starts a call: what every call's first step does to the task.
Start(p, op, swap_id, state, peer_id) ==
    /\ UNCHANGED netvars
    /\ pc[p] \in {"idle", "done", "crashed"}
    /\ calls < MaxCalls
    /\ calls' = calls + 1
    /\ call' = [call EXCEPT ![p] = [op |-> op, swap_id |-> swap_id,
                                    state |-> state, peer_id |-> peer_id]]
    /\ raced' = [q \in Procs |-> IF q = p THEN {} ELSE raced[q] \ {p}]
    /\ overlapped' =
         [q \in Procs |->
            IF q = p
            THEN IF op = "insert_latest_state"
                 THEN {r \in Procs \ {p} : InFlightInsert(r, swap_id)}
                 ELSE {}
            ELSE IF op = "insert_latest_state" /\ InFlightInsert(q, swap_id)
                 THEN overlapped[q] \cup {p}
                 ELSE overlapped[q] \ {p}]

\* The history of a write by p to the key of swap_id in the tree of op.
Supersede(p, op, swap_id) ==
    [q \in Procs |-> IF q = p THEN FALSE
                     ELSE IF Wrote(q, op, swap_id) THEN TRUE
                     ELSE superseded[q]]

\* A write that goes through to the disk at once.
after_write_through(durable, name, tree) == [durable EXCEPT ![name] = tree]

\* sled buffers a write in the page cache: the durable image is what it was.
after_write(durable, name, tree) == durable

\* A flush that reports success and writes nothing.
after_flush_nothing(durable, swaps_, peers_) == durable

\* What a completed flush leaves on disk: flush_async of either tree flushes
\* the page cache the two trees share.
after_flush(durable, swaps_, peers_) == [swaps |-> swaps_, peers |-> peers_]

\* ------------------------------------------------------ pure read operations
\* A get_state that reads the durable image.
get_state_durable(swap_id) ==
    LET encoded == tree_get(disk.swaps, serialize_Uuid(swap_id))
    IN  IF encoded = None THEN Err(NotFound) ELSE deserialize_Swap(encoded[1])

\* Database::get_state
get_state(swap_id) ==
    LET encoded == tree_get(swaps, serialize_Uuid(swap_id))
    IN  IF encoded = None THEN Err(NotFound) ELSE deserialize_Swap(encoded[1])

\* Database::get_peer_id
get_peer_id(swap_id) ==
    LET encoded == tree_get(peers, serialize_Uuid(swap_id))
    IN  IF encoded = None THEN Err(NotFound)
        ELSE LET peer_id == deserialize_String(encoded[1])
             IN  IF IsOk(peer_id) THEN from_str(peer_id[2]) ELSE peer_id

\* ------------------------------------------------------------ enumerations
\* Database::all_swaps_iter: one Result<(Uuid, Swap)> per entry, in key order.
all_swaps_iter ==
    LET items == tree_iter(swaps)
    IN  [i \in DOMAIN items |->
           LET swap_id == deserialize_Uuid(items[i][1])
               swap == deserialize_Swap(items[i][2])
           IN  IF ~IsOk(swap_id) THEN swap_id
               ELSE IF ~IsOk(swap) THEN swap
               ELSE Ok(<<swap_id[2], swap[2]>>)]

\* Database::all_alice_iter
all_alice_iter ==
    [i \in DOMAIN all_swaps_iter |->
       LET item == all_swaps_iter[i]
       IN  IF ~IsOk(item) THEN item
           ELSE LET alice == try_into_alice(item[2][2])
                IN  IF ~IsOk(alice) THEN alice ELSE Ok(<<item[2][1], alice[2]>>)]

\* Database::all_bob_iter
all_bob_iter ==
    [i \in DOMAIN all_swaps_iter |->
       LET item == all_swaps_iter[i]
       IN  IF ~IsOk(item) THEN item
           ELSE LET bob == try_into_bob(item[2][2])
                IN  IF ~IsOk(bob) THEN bob ELSE Ok(<<item[2][1], bob[2]>>)]

\* A collect that drops the errors and keeps the values.
RECURSIVE collect_skip_errors(_)
collect_skip_errors(items) ==
    IF items = <<>> THEN Ok(<<>>)
    ELSE IF ~IsOk(Head(items)) THEN collect_skip_errors(Tail(items))
    ELSE Ok(<<Head(items)[2]>> \o collect_skip_errors(Tail(items))[2])

\* Iterator<Item = Result<T>>::collect::<Result<Vec<T>>>: the first error, or
\* every value.
RECURSIVE collect(_)
collect(items) ==
    IF items = <<>> THEN Ok(<<>>)
    ELSE IF ~IsOk(Head(items)) THEN Head(items)
    ELSE LET rest == collect(Tail(items))
         IN  IF ~IsOk(rest) THEN rest ELSE Ok(<<Head(items)[2]>> \o rest[2])

\* itertools filter_ok with the predicate of unfinished_alice: errors pass
\* through, Ok items are kept unless their state is Done(_).
RECURSIVE filter_ok_not_done(_)
filter_ok_not_done(items) ==
    IF items = <<>> THEN <<>>
    ELSE IF IsOk(Head(items)) /\ Head(items)[2][2] = "Done"
         THEN filter_ok_not_done(Tail(items))
         ELSE <<Head(items)>> \o filter_ok_not_done(Tail(items))

\* Database::all_alice
all_alice == collect(all_alice_iter)

\* Database::all_bob
all_bob == collect(all_bob_iter)

\* An unfinished_alice that drops the finished swaps before it looks at the role.
unfinished_alice_filter_first ==
    LET RECURSIVE not_done(_)
        not_done(items) ==
            IF items = <<>> THEN <<>>
            ELSE IF IsOk(Head(items)) /\ Head(items)[2][2].inner = "Done"
                 THEN not_done(Tail(items))
                 ELSE <<Head(items)>> \o not_done(Tail(items))
        kept == not_done(all_swaps_iter)
    IN  collect([i \in DOMAIN kept |->
                   LET item == kept[i]
                   IN  IF ~IsOk(item) THEN item
                       ELSE LET alice == try_into_alice(item[2][2])
                            IN  IF ~IsOk(alice) THEN alice
                                ELSE Ok(<<item[2][1], alice[2]>>)])

\* Database::unfinished_alice
unfinished_alice == collect(filter_ok_not_done(all_alice_iter))

\* ---------------------------------------------------------------- actions
\* insert_latest_state up to its read of the stored value.
insert_latest_state_get(p, swap_id, state) ==
    /\ Start(p, "insert_latest_state", swap_id, state, NoPeer)
    /\ old_value' = [old_value EXCEPT ![p] = tree_get(swaps, serialize_Uuid(swap_id))]
    /\ pc' = [pc EXCEPT ![p] = "cas"]
    /\ ret' = [ret EXCEPT ![p] = Pending]
    /\ superseded' = [superseded EXCEPT ![p] = FALSE]
    /\ UNCHANGED <<swaps, peers, disk, crashes>>

\* insert_latest_state's compare_and_swap, and its return on a conflict.
insert_latest_state_cas(p) ==
    /\ pc[p] = "cas"
    /\ LET cas == compare_and_swap(swaps, key(p), old_value[p], new_value(p))
       IN  /\ swaps' = cas.tree
           /\ disk' = after_write(disk, "swaps", cas.tree)
           /\ IF IsOk(cas.res)
              THEN /\ pc' = [pc EXCEPT ![p] = "flush"]
                   /\ ret' = ret
                   /\ superseded' =
                        Supersede(p, "insert_latest_state", call[p].swap_id)
              ELSE /\ pc' = [pc EXCEPT ![p] = "done"]
                   /\ ret' = [ret EXCEPT ![p] = cas.res]
                   /\ superseded' = superseded
    /\ raced' = [raced EXCEPT ![p] =
                   {q \in Procs \ {p} : /\ pc[q] = "cas"
                                        /\ call[q].swap_id = call[p].swap_id
                                        /\ old_value[q] = old_value[p]}]
    /\ UNCHANGED <<peers, call, old_value, calls, crashes, overlapped, netvars>>

\* insert_peer_id up to its await: the insert into the tree "peers".
insert_peer_id_insert(p, swap_id, peer_id) ==
    /\ Start(p, "insert_peer_id", swap_id, NoSwap, peer_id)
    /\ peers' = tree_insert(peers, serialize_Uuid(swap_id),
                            serialize_String(to_string(peer_id)))
    /\ disk' = after_write(disk, "peers", peers')
    /\ pc' = [pc EXCEPT ![p] = "flush"]
    /\ ret' = [ret EXCEPT ![p] = Pending]
    /\ superseded' = Supersede(p, "insert_peer_id", swap_id)
    /\ UNCHANGED <<swaps, old_value, crashes>>

\* A flush_async whose failure takes the trees back to what is on disk.
flush_async_rollback(p) ==
    /\ pc[p] = "flush"
    /\ pc' = [pc EXCEPT ![p] = "done"]
    /\ \/ /\ disk' = after_flush(disk, swaps, peers)
          /\ ret' = [ret EXCEPT ![p] = Ok(Unit)]
          /\ UNCHANGED <<swaps, peers>>
       \/ /\ disk' = disk
          /\ swaps' = disk.swaps
          /\ peers' = disk.peers
          /\ ret' = [ret EXCEPT ![p] = Err(CouldNotFlush)]
    /\ UNCHANGED <<call, old_value, calls, crashes,
                   raced, overlapped, superseded, netvars>>

\* flush_async().await of either insert: the flush completes and the call
\* returns Ok, or the flush fails and the call returns the error.
flush_async(p) ==
    /\ pc[p] = "flush"
    /\ pc' = [pc EXCEPT ![p] = "done"]
    /\ \/ /\ disk' = after_flush(disk, swaps, peers)
          /\ ret' = [ret EXCEPT ![p] = Ok(Unit)]
       \/ /\ disk' = disk
          /\ ret' = [ret EXCEPT ![p] = Err(CouldNotFlush)]
    /\ UNCHANGED <<swaps, peers, call, old_value, calls, crashes,
                   raced, overlapped, superseded, netvars>>

\* A call of a synchronous read operation: it runs to its return.
Read(p, op, swap_id, result) ==
    /\ Start(p, op, swap_id, NoSwap, NoPeer)
    /\ pc' = [pc EXCEPT ![p] = "done"]
    /\ ret' = [ret EXCEPT ![p] = result]
    /\ superseded' = [superseded EXCEPT ![p] = FALSE]
    /\ UNCHANGED <<swaps, peers, disk, old_value, crashes>>

call_get_state(p, swap_id) == Read(p, "get_state", swap_id, get_state(swap_id))

call_get_peer_id(p, swap_id) == Read(p, "get_peer_id", swap_id, get_peer_id(swap_id))

call_all_alice(p) == Read(p, "all_alice", 0, all_alice)

call_all_bob(p) == Read(p, "all_bob", 0, all_bob)

call_unfinished_alice(p) == Read(p, "unfinished_alice", 0, unfinished_alice)

\* sled's periodic flush (sled::open keeps the default flush_every_ms): the
\* page cache reaches the disk without any caller asking.
BackgroundFlush ==
    /\ disk # after_flush(disk, swaps, peers)
    /\ disk' = after_flush(disk, swaps, peers)
    /\ UNCHANGED <<swaps, peers, pc, call, old_value, ret, calls, crashes,
                   raced, overlapped, superseded, netvars>>

\* The process dies and Database::open runs again on the same path: the trees
\* hold what was durable.  The calls that had returned stay on record, a call
\* that was waiting for its flush stays on record as crashed, a call that had
\* not written yet is gone.
Crash ==
    /\ crashes < MaxCrashes
    /\ crashes' = crashes + 1
    /\ swaps' = disk.swaps
    /\ peers' = disk.peers
    /\ pc' = [p \in Procs |-> IF pc[p] = "flush" THEN "crashed"
                              ELSE IF pc[p] = "cas" THEN "idle" ELSE pc[p]]
    /\ call' = [p \in Procs |-> IF pc[p] = "cas" THEN NoCall ELSE call[p]]
    /\ old_value' = [p \in Procs |-> IF pc[p] = "cas" THEN None ELSE old_value[p]]
    /\ raced' = [p \in Procs |->
                   IF pc[p] = "cas" THEN {}
                   ELSE {q \in raced[p] : pc[q] # "cas"}]
    /\ overlapped' = [p \in Procs |->
                        IF pc[p] = "cas" THEN {}
                        ELSE {q \in overlapped[p] : pc[q] # "cas"}]
    /\ UNCHANGED <<disk, ret, calls, superseded, netvars>>

\* ------------------------------------------------- network/tor_transport.rs
\* The variables of the store, which the network side leaves alone.
dbvars == <<swaps, peers, disk, pc, call, old_value, ret, calls, crashes,
            raced, overlapped, superseded>>

\* Longest multi-address, in segments.
MaxSegs == 2

\* Bytes of the service hashes (a group of five bytes encodes to eight base32
\* characters without padding, as the 10 and 35 bytes of real addresses do).
OnionHash == <<0, 68, 50, 20, 199>>
Onion3Hash ==
    <<112, 34, 35, 227, 147, 3, 48, 59, 137, 19, 2, 145, 224, 139, 85, 226, 201,
      144, 122, 187, 234, 9, 150, 83, 66, 57, 180, 16, 63, 219, 149, 124, 93, 13, 3>>

\* libp2p::core::multiaddr::Protocol, the segments of a Multiaddr.
Protocol ==
    {<<"ip4", 1>>, <<"tcp", 80>>, <<"p2p", 1>>}
    \cup {<<"onion", OnionHash, 80>>, <<"onion3", Onion3Hash, 1024>>}

\* Multiaddr: a sequence of segments.
Multiaddr == UNION {[1..n -> Protocol] : n \in 0..MaxSegs}

\* TorTcpConfig { inner, socks_port }
TorTcpConfig == [inner : {"tcp"}, socks_port : {9050, 9150}]

\* The characters of a String, one by one.
BASE32_ALPHABET ==
    <<"A", "B", "C", "D", "E", "F", "G", "H", "I", "J", "K", "L", "M", "N", "O",
      "P", "Q", "R", "S", "T", "U", "V", "W", "X", "Y", "Z", "2", "3", "4", "5",
      "6", "7">>

\* str::to_lowercase, on the characters base32 produces.
LowerOf ==
    <<"a", "b", "c", "d", "e", "f", "g", "h", "i", "j", "k", "l", "m", "n", "o",
      "p", "q", "r", "s", "t", "u", "v", "w", "x", "y", "z", "2", "3", "4", "5",
      "6", "7">>

\* A to_lowercase that leaves the characters as they are.
to_lowercase_not(str) == str

to_lowercase(str) ==
    [i \in DOMAIN str |->
       LowerOf[CHOOSE k \in DOMAIN BASE32_ALPHABET : BASE32_ALPHABET[k] = str[i]]]

\* The bits of the bytes, most significant bit first.
RECURSIVE BitsOf(_)
BitsOf(bytes) ==
    IF bytes = <<>> THEN <<>>
    ELSE [i \in 1..8 |-> (Head(bytes) \div (2 ^ (8 - i))) % 2] \o BitsOf(Tail(bytes))

\* data_encoding::BASE32.encode, for input of whole groups of five bytes (no
\* padding): one character for every five bits.
BASE32_encode(bytes) ==
    LET bits == BitsOf(bytes)
    IN  [c \in 1..(Len(bits) \div 5) |->
           LET b == SubSeq(bits, 5 * c - 4, 5 * c)
           IN  BASE32_ALPHABET[16 * b[1] + 8 * b[2] + 4 * b[3] + 2 * b[4] + b[5] + 1]]

\* The decimal digits of a port, as format!("{}", port) writes them.
RECURSIVE Decimal(_)
Decimal(n) ==
    LET digit == <<"0", "1", "2", "3", "4", "5", "6", "7", "8", "9">>[(n % 10) + 1]
    IN  IF n < 10 THEN <<digit>> ELSE Decimal(n \div 10) \o <<digit>>

\* format!("{}.onion:{}", host, port)
FormatOnion(host, port) ==
    host \o <<".", "o", "n", "i", "o", "n", ":">> \o Decimal(port)

\* A to_onion_address that finds a target in every address.
to_onion_address_always(multi) == Some(FormatOnion(<<>>, 0))

\* to_onion_address: the target of the first onion segment, or None.
RECURSIVE to_onion_address(_)
to_onion_address(multi) ==
    IF multi = <<>> THEN None
    ELSE LET protocol == Head(multi)
         IN  IF protocol[1] \in {"onion", "onion3"}
             THEN Some(FormatOnion(to_lowercase(BASE32_encode(protocol[2])),
                                   protocol[3]))
             ELSE to_onion_address(Tail(multi))

\* Ipv4Addr::LOCALHOST
LOCALHOST == <<127, 0, 0, 1>>

\* What the calls of the transport return inside Ok: a future that has not
\* run, a stream, a listener.
TorFuture(socks_port, dest) ==
    [kind |-> "do_tor_dial", socks_port |-> socks_port, dest |-> dest]
InnerFuture == [kind |-> "inner_dial", socks_port |-> 0, dest |-> <<>>]
TcpStream == [kind |-> "TcpStream", socks_port |-> 0, dest |-> <<>>]
TcpListenStream == [kind |-> "TcpListenStream", socks_port |-> 0, dest |-> <<>>]

\* What the inner transport answers to dial or listen_on: what was asked for,
\* or its own error for an address it does not support.
InnerResult(supported, what) ==
    IF supported THEN Ok(what) ELSE Err("MultiaddrNotSupported")

\* TorTcpConfig::dial: the future of do_tor_dial for an address with an onion
\* segment, the inner transport's dial for any other.
dial(self, addr) ==
    /\ LET target == to_onion_address(addr)
       IN  IF target # None
           THEN /\ transport_calls' = <<>>
                /\ transport_op' =
                      [op |-> "dial", self |-> self, addr |-> addr,
                       ret |-> Ok(TorFuture(self.socks_port, target[1]))]
           ELSE /\ transport_calls' = <<[callee |-> "inner.dial", addr |-> addr]>>
                /\ \E supported \in BOOLEAN :
                      transport_op' =
                         [op |-> "dial", self |-> self, addr |-> addr,
                          ret |-> InnerResult(supported, InnerFuture)]
    /\ UNCHANGED <<dbvars, torvars, codecvars, upgrade>>

\* A listen_on that goes to the proxy for an address with an onion segment.
listen_on_routed(self, addr) ==
    /\ transport_calls' =
          <<IF to_onion_address(addr) # None
            THEN [callee |-> "Socks5Stream::connect",
                  addr |-> <<LOCALHOST, self.socks_port>>]
            ELSE [callee |-> "inner.listen_on", addr |-> addr]>>
    /\ transport_op' = [op |-> "listen_on", self |-> self, addr |-> addr,
                        ret |-> Ok(TcpListenStream)]
    /\ UNCHANGED <<dbvars, torvars, codecvars, upgrade>>

\* TorTcpConfig::listen_on
listen_on(self, addr) ==
    /\ transport_calls' = <<[callee |-> "inner.listen_on", addr |-> addr]>>
    /\ \E supported \in BOOLEAN :
          transport_op' =
             [op |-> "listen_on", self |-> self, addr |-> addr,
              ret |-> InnerResult(supported, TcpListenStream)]
    /\ UNCHANGED <<dbvars, torvars, codecvars, upgrade>>

\* The future a dial has returned and nobody has awaited yet.
PendingFuture ==
    IF IsOk(transport_op.ret) /\ transport_op.op = "dial"
    THEN transport_op.ret[2].kind ELSE "none"

\* A do_tor_dial that returns the error of the proxy as it is.
do_tor_dial_unmapped ==
    /\ PendingFuture = "do_tor_dial"
    /\ LET fut == transport_op.ret[2]
       IN  transport_calls' =
              Append(transport_calls,
                     [callee |-> "Socks5Stream::connect",
                      sock |-> <<LOCALHOST, fut.socks_port>>, dest |-> fut.dest])
    /\ \E connected \in BOOLEAN :
          transport_op' =
             [transport_op EXCEPT
                !.ret = IF connected THEN Ok(TcpStream)
                        ELSE Err("tokio_socks::Error")]
    /\ UNCHANGED <<dbvars, torvars, codecvars, upgrade>>

\* do_tor_dial and connect_to_socks_proxy: connect to the proxy on the
\* loopback address; its error becomes ConnectionRefused.
do_tor_dial ==
    /\ PendingFuture = "do_tor_dial"
    /\ LET fut == transport_op.ret[2]
       IN  transport_calls' =
              Append(transport_calls,
                     [callee |-> "Socks5Stream::connect",
                      sock |-> <<LOCALHOST, fut.socks_port>>, dest |-> fut.dest])
    /\ \E connected \in BOOLEAN :
          transport_op' =
             [transport_op EXCEPT
                !.ret = IF connected THEN Ok(TcpStream)
                        ELSE Err("ConnectionRefused")]
    /\ UNCHANGED <<dbvars, torvars, codecvars, upgrade>>

\* The future of the inner transport's dial resolves.
inner_dial ==
    /\ PendingFuture = "inner_dial"
    /\ \E connected \in BOOLEAN :
          transport_op' =
             [transport_op EXCEPT
                !.ret = IF connected THEN Ok(TcpStream) ELSE Err("io::Error")]
    /\ UNCHANGED <<transport_calls, dbvars, torvars, codecvars, upgrade>>

\* ------------------------------------------------------------------- tor.rs
\* The sentence assert_tor_running looks for, as words.
Congratulations ==
    <<"Congratulations.", "This", "browser", "is", "configured", "to", "use", "Tor.">>

\* Bodies the check page answers with: the sentence inside a page, the answer
\* to a browser outside Tor, the sentence cut short, the sentence in lower
\* case, nothing.
Bodies ==
    {<<"<h1>">> \o Congratulations \o <<"</h1>">>,
     <<"Sorry.", "You", "are", "not", "using", "Tor.">>,
     <<"Congratulations.", "This", "browser", "is", "configured", "to", "use">>,
     <<"congratulations.", "this", "browser", "is", "configured", "to", "use", "tor.">>,
     <<>>}

\* A contains that is content with the first word of the pattern.
contains_first_word(text, pat) ==
    \E i \in 1..Len(text) : text[i] = pat[1]

\* str::contains
contains(text, pat) ==
    \E i \in 1..(Len(text) - Len(pat) + 1) : SubSeq(text, i, i + Len(pat) - 1) = pat

\* `?` and `bail!`: into_authenticated_connection returns the error; the
\* connection, moved into the call, is dropped.
Failed(conn, where, e) ==
    [conn EXCEPT !.pc = "returned", !.failed_at = where, !.ret = Err(e)]

\* One more request on the wire.
Sent(c, callee, to) ==
    [tor_requests EXCEPT ![c] = Append(@, [callee |-> callee, to |-> to])]

\* UnauthenticatedConnection::with_socks5_port
with_socks5_port(c, socks5_port) ==
    /\ tor_conn[c].pc = "new"
    /\ tor_conn' = [tor_conn EXCEPT ![c].self.socks5_address = Localhost(socks5_port)]
    /\ UNCHANGED <<tor_requests, tor_service, dbvars, transportvars, codecvars, upgrade>>

\* UnauthenticatedConnection::with_control_port
with_control_port(c, control_port) ==
    /\ tor_conn[c].pc = "new"
    /\ tor_conn' =
          [tor_conn EXCEPT ![c].self.control_port_address = Localhost(control_port)]
    /\ UNCHANGED <<tor_requests, tor_service, dbvars, transportvars, codecvars, upgrade>>

\* into_authenticated_connection enters assert_tor_running: the proxy, the
\* client, and the request to the check page through the proxy, up to the
\* response's head.  Each of the three can fail.
assert_tor_running_send(c) ==
    /\ tor_conn[c].pc = "new"
    /\ \E outcome \in {"Proxy::all", "build", "send", "response"} :
          /\ tor_requests' =
                IF outcome \in {"send", "response"}
                THEN Sent(c, "get https://check.torproject.org",
                          tor_conn[c].self.socks5_address)
                ELSE tor_requests
          /\ tor_conn' =
                [tor_conn EXCEPT ![c] =
                    CASE outcome = "Proxy::all" ->
                            Failed(@, "assert_tor_running", "tor proxy should be there")
                      [] outcome \in {"build", "send"} ->
                            Failed(@, "assert_tor_running", "reqwest::Error")
                      [] OTHER -> [@ EXCEPT !.pc = "text"]]
    /\ UNCHANGED <<tor_service, dbvars, transportvars, codecvars, upgrade>>

\* assert_tor_running reads the body and looks for the sentence.
assert_tor_running_text(c) ==
    /\ tor_conn[c].pc = "text"
    /\ \/ tor_conn' =
             [tor_conn EXCEPT ![c] = Failed(@, "assert_tor_running", "reqwest::Error")]
       \/ \E text \in Bodies :
             tor_conn' =
                [tor_conn EXCEPT ![c] =
                    IF ~contains(text, Congratulations)
                    THEN Failed([@ EXCEPT !.text = Some(text)], "assert_tor_running",
                                "Tor is currently not running")
                    ELSE [@ EXCEPT !.text = Some(text), !.pc = "connect"]]
    /\ UNCHANGED <<tor_requests, tor_service, dbvars, transportvars, codecvars, upgrade>>

\* init_unauthenticated_connection: TcpStream::connect to the control port.
init_unauthenticated_connection(c) ==
    /\ tor_conn[c].pc = "connect"
    /\ tor_requests' = Sent(c, "TcpStream::connect", tor_conn[c].self.control_port_address)
    /\ \E connected \in BOOLEAN :
          tor_conn' =
             [tor_conn EXCEPT ![c] =
                 IF connected
                 THEN [@ EXCEPT !.state = "Connected", !.pc = "load_protocol_info"]
                 ELSE Failed(@, "connect", "Tor instance not running.")]
    /\ UNCHANGED <<tor_service, dbvars, transportvars, codecvars, upgrade>>

\* A load_protocol_info that, when it fails, drops the stream and connects
\* again.
load_protocol_info_reconnect(c) ==
    /\ tor_conn[c].pc = "load_protocol_info"
    /\ tor_requests' = Sent(c, "PROTOCOLINFO", tor_conn[c].self.control_port_address)
    /\ \E loaded \in BOOLEAN :
          tor_conn' =
             [tor_conn EXCEPT ![c] =
                 IF loaded
                 THEN [@ EXCEPT !.pc = "authenticate"]
                 ELSE [@ EXCEPT !.state = "Disconnected", !.pc = "connect",
                                !.failed_at = "load_protocol_info"]]
    /\ UNCHANGED <<tor_service, dbvars, transportvars, codecvars, upgrade>>

\* uc.load_protocol_info()
load_protocol_info(c) ==
    /\ tor_conn[c].pc = "load_protocol_info"
    /\ tor_requests' = Sent(c, "PROTOCOLINFO", tor_conn[c].self.control_port_address)
    /\ \E loaded \in BOOLEAN :
          tor_conn' =
             [tor_conn EXCEPT ![c] =
                 IF loaded
                 THEN [@ EXCEPT !.pc = "authenticate"]
                 ELSE Failed(@, "load_protocol_info",
                             "Failed to load protocol info from Tor.")]
    /\ UNCHANGED <<tor_service, dbvars, transportvars, codecvars, upgrade>>

\* make_auth_data (an io::Error, no data, or the data) and uc.authenticate
authenticate(c) ==
    /\ tor_conn[c].pc = "authenticate"
    /\ \E outcome \in {"io::Error", "None", "refused", "authenticated"} :
          /\ tor_requests' =
                IF outcome \in {"refused", "authenticated"}
                THEN Sent(c, "AUTHENTICATE", tor_conn[c].self.control_port_address)
                ELSE tor_requests
          /\ tor_conn' =
                [tor_conn EXCEPT ![c] =
                    CASE outcome = "io::Error" ->
                            Failed(@, "make_auth_data", "io::Error")
                      [] outcome = "None" ->
                            Failed(@, "make_auth_data", "Failed to make auth data.")
                      [] outcome = "refused" ->
                            Failed(@, "authenticate", "Failed to authenticate with Tor")
                      [] OTHER -> [@ EXCEPT !.pc = "into_authenticated"]]
    /\ UNCHANGED <<tor_service, dbvars, transportvars, codecvars, upgrade>>

\* uc.into_authenticated(), and Ok(AuthenticatedConnection { inner })
into_authenticated(c) ==
    /\ tor_conn[c].pc = "into_authenticated"
    /\ tor_conn' = [tor_conn EXCEPT ![c].state = "Authenticated",
                                    ![c].pc = "returned",
                                    ![c].ret = Ok("AuthenticatedConnection")]
    /\ UNCHANGED <<tor_requests, tor_service, dbvars, transportvars, codecvars, upgrade>>

\* Most listeners of one add_services.
MaxListeners == 2

\* The ports (u16) and socket addresses a caller passes.
Ports == {80, 9090}
SocketAddrs == {Localhost(8080), Localhost(3000), <<<<10, 0, 0, 5>>, 8080>>}
Services == UNION {[1..n -> Ports \X SocketAddrs] : n \in 0..MaxListeners}

\* add_onion_v3(tor_key, false, false, false, None, listeners)
add_onion_v3(op, c, tor_key, listeners) ==
    /\ tor_conn[c].state = "Authenticated"
    /\ \E added \in BOOLEAN :
          tor_service' =
             [op |-> op, conn |-> c, tor_key |-> tor_key, listeners |-> listeners,
              ret |-> IF added THEN Ok(Unit) ELSE Err("Could not add onion service.")]
    /\ UNCHANGED <<tor_conn, tor_requests, dbvars, transportvars, codecvars, upgrade>>

\* AuthenticatedConnection::add_service
add_service(c, service_port, onion_port, tor_key) ==
    add_onion_v3("add_service", c, tor_key, <<<<onion_port, Localhost(service_port)>>>>)

\* AuthenticatedConnection::add_services
add_services(c, services, tor_key) ==
    add_onion_v3("add_services", c, tor_key, services)

\* ------------------------------------------- network/request_response.rs
\* The longest frame read_request and read_response accept.
MAX_FRAME == 1024

\* Amounts (u64) that are negotiated.
Amount == {0, 5, 120, 999, 21000000}

\* enum BobToAlice { AmountsFromBtc(bitcoin::Amount), AmountsFromXmr(monero::Amount) }
BobToAlice == [variant : {"AmountsFromBtc", "AmountsFromXmr"}, amount : Amount]

\* enum AliceToBob { Amounts(SwapParams) }, SwapParams { btc, xmr }
AliceToBob == [variant : {"Amounts"}, btc : Amount, xmr : Amount]

\* The name of a variant or of a field as a JSON string, byte by byte.
JsonString(name) ==
    <<"\"">> \o
    (CASE name = "AmountsFromBtc" ->
            <<"A", "m", "o", "u", "n", "t", "s", "F", "r", "o", "m", "B", "t", "c">>
       [] name = "AmountsFromXmr" ->
            <<"A", "m", "o", "u", "n", "t", "s", "F", "r", "o", "m", "X", "m", "r">>
       [] name = "Amounts" -> <<"A", "m", "o", "u", "n", "t", "s">>
       [] name = "btc" -> <<"b", "t", "c">>
       [] name = "xmr" -> <<"x", "m", "r">>)
    \o <<"\"">>

\* A writer of requests that tags every request as AmountsFromBtc.
to_vec_BobToAlice_untagged(req) ==
    <<"{">> \o JsonString("AmountsFromBtc") \o <<":">> \o Decimal(req.amount) \o <<"}">>

\* serde_json::to_vec(&req): {"AmountsFromBtc":5}
to_vec_BobToAlice(req) ==
    <<"{">> \o JsonString(req.variant) \o <<":">> \o Decimal(req.amount) \o <<"}">>

\* serde_json::to_vec(&res): {"Amounts":{"btc":5,"xmr":120}}
to_vec_AliceToBob(res) ==
    <<"{">> \o JsonString(res.variant) \o <<":", "{">>
    \o JsonString("btc") \o <<":">> \o Decimal(res.btc) \o <<",">>
    \o JsonString("xmr") \o <<":">> \o Decimal(res.xmr) \o <<"}", "}">>

\* The parser skips white space: the first position from i on that holds
\* none, or the position past the end.
SkipWs(b, i) ==
    CHOOSE j \in i..(Len(b) + 1) :
        /\ j = Len(b) + 1 \/ b[j] \notin {" ", "\n", "\t", "\r"}
        /\ \A k \in i..(j - 1) : b[k] \in {" ", "\n", "\t", "\r"}

\* The parser reads the literal at position i and the white space after it:
\* the position it is at then, or 0 when the literal is not there.
Lit(b, i, lit) ==
    IF i > 0 /\ i + Len(lit) - 1 <= Len(b) /\ SubSeq(b, i, i + Len(lit) - 1) = lit
    THEN SkipWs(b, i + Len(lit))
    ELSE 0

\* The number a run of digits spells.
RECURSIVE DigitsValue(_)
DigitsValue(digits) ==
    IF digits = <<>> THEN 0
    ELSE 10 * DigitsValue(SubSeq(digits, 1, Len(digits) - 1))
         + (CHOOSE d \in 0..9 : Decimal(d) = <<digits[Len(digits)]>>)

\* The parser reads an unsigned number at position i and the white space
\* after it: the position it is at then and the number, or <<0, 0>> when no
\* number is there (no digit, a leading zero, or more digits than a u64 holds;
\* here: than the model's integers hold).
Number(b, i) ==
    LET isDigit(j) == b[j] \in {"0", "1", "2", "3", "4", "5", "6", "7", "8", "9"}
        j == IF i = 0 THEN 0
             ELSE CHOOSE e \in i..(Len(b) + 1) :
                     /\ e = Len(b) + 1 \/ ~isDigit(e)
                     /\ \A k \in i..(e - 1) : isDigit(k)
    IN  IF i = 0 \/ j = i \/ j - i > 9 \/ (j - i > 1 /\ b[i] = "0")
        THEN <<0, 0>>
        ELSE <<SkipWs(b, j), DigitsValue(SubSeq(b, i, j - 1))>>

\* serde_json::Deserializer::from_slice and BobToAlice::deserialize: an object
\* with one of the two variants and a number; what follows the value is not
\* looked at.
from_slice_BobToAlice(b) ==
    LET value(variant) ==
            Number(b, Lit(b, Lit(b, Lit(b, SkipWs(b, 1), <<"{">>),
                                 JsonString(variant)), <<":">>))
        end(variant) == Lit(b, value(variant)[1], <<"}">>)
    IN  IF end("AmountsFromBtc") > 0
        THEN Ok([variant |-> "AmountsFromBtc", amount |-> value("AmountsFromBtc")[2]])
        ELSE IF end("AmountsFromXmr") > 0
        THEN Ok([variant |-> "AmountsFromXmr", amount |-> value("AmountsFromXmr")[2]])
        ELSE Err("serde_json::Error")

\* AliceToBob::deserialize: the variant Amounts with the fields btc and xmr,
\* in either order.
from_slice_AliceToBob(b) ==
    LET open == Lit(b, Lit(b, Lit(b, Lit(b, SkipWs(b, 1), <<"{">>),
                                  JsonString("Amounts")), <<":">>), <<"{">>)
        field(i, name) == Number(b, Lit(b, Lit(b, i, JsonString(name)), <<":">>))
        first(name) == field(open, name)
        second(one, name) == field(Lit(b, first(one)[1], <<",">>), name)
        end(one, other) == Lit(b, Lit(b, second(one, other)[1], <<"}">>), <<"}">>)
    IN  IF end("btc", "xmr") > 0
        THEN Ok([variant |-> "Amounts", btc |-> first("btc")[2],
                 xmr |-> second("btc", "xmr")[2]])
        ELSE IF end("xmr", "btc") > 0
        THEN Ok([variant |-> "Amounts", btc |-> second("xmr", "btc")[2],
                 xmr |-> first("xmr")[2]])
        ELSE Err("serde_json::Error")

\* unsigned_varint: seven bits a byte, the low ones first.
RECURSIVE varint(_)
varint(n) ==
    IF n < 128 THEN <<n>> ELSE <<128 + (n % 128)>> \o varint(n \div 128)

RECURSIVE read_varint(_)
read_varint(prefix) ==
    IF Len(prefix) = 1 THEN prefix[1]
    ELSE (prefix[1] % 128) + 128 * read_varint(Tail(prefix))

\* upgrade::write_one: the length, then the bytes.
write_one(bytes) == [len_prefix |-> varint(Len(bytes)), data |-> bytes]

\* A read_one that takes a frame of any length.
read_one_unbounded(io, max) ==
    LET len == read_varint(io.len_prefix)
    IN  IF Len(io.data) < len THEN Err(<<"UnexpectedEof">>)
        ELSE Ok(SubSeq(io.data, 1, len))

\* upgrade::read_one(io, max): the length, refused when over max, then that
\* many bytes.
read_one(io, max) ==
    LET len == read_varint(io.len_prefix)
    IN  IF len > max THEN Err(<<"TooLarge">>)
        ELSE IF Len(io.data) < len THEN Err(<<"UnexpectedEof">>)
        ELSE Ok(SubSeq(io.data, 1, len))

\* Frames a peer can send that Codec's writers did not write: a request and a
\* response followed by white space up to the limit and one byte over it, a
\* request with white space inside, a value that is no message, a length over
\* the limit with few bytes behind it, and a stream that ends inside the frame.
PeerFrames ==
    LET Pad(bytes, len) == bytes \o [i \in 1..(len - Len(bytes)) |-> " "]
        req == to_vec_BobToAlice([variant |-> "AmountsFromXmr", amount |-> 120])
        res == to_vec_AliceToBob([variant |-> "Amounts", btc |-> 5, xmr |-> 0])
    IN  {write_one(Pad(req, MAX_FRAME)), write_one(Pad(req, MAX_FRAME + 1)),
         write_one(Pad(res, MAX_FRAME)), write_one(Pad(res, MAX_FRAME + 1)),
         write_one(<<"{", " ">> \o JsonString("AmountsFromBtc")
                   \o <<" ", ":", "\n", "5", " ", "}">>),
         write_one(<<"n", "u", "l", "l">>),
         [len_prefix |-> varint(MAX_FRAME + 1), data |-> req],
         [len_prefix |-> varint(Len(res) + 1), data |-> res]}

\* Codec::write_request and Codec::write_response: the message as JSON in one
\* frame, unless the stream fails.
write(op, msg, bytes) ==
    /\ \E written \in BOOLEAN :
          /\ codec_io' = IF written THEN write_one(bytes) ELSE NoFrame
          /\ codec_op' = [op |-> op, len |-> Len(bytes),
                          written |-> IF written THEN Some(msg) ELSE None,
                          ret |-> IF written THEN Ok(Unit) ELSE Err("io::Error")]
    /\ UNCHANGED <<dbvars, transportvars, torvars, upgrade>>

write_request(req) == write("write_request", req, to_vec_BobToAlice(req))
write_response(res) == write("write_response", res, to_vec_AliceToBob(res))

\* The peer's own writer puts a frame on the stream.
peer_writes(frame) ==
    /\ codec_io' = frame
    /\ codec_op' = [op |-> "peer_writes", len |-> read_varint(frame.len_prefix),
                    written |-> None, ret |-> Ok(Unit)]
    /\ UNCHANGED <<dbvars, transportvars, torvars, upgrade>>

\* What both readers do with the stream: the frame is taken off it and the
\* call returns.
read(op, result) ==
    /\ codec_io # NoFrame
    /\ codec_op' = [op |-> op, len |-> read_varint(codec_io.len_prefix),
                    written |-> codec_op.written, ret |-> result]
    /\ codec_io' = NoFrame
    /\ UNCHANGED <<dbvars, transportvars, torvars, upgrade>>

\* Codec::read_request: one frame of at most MAX_FRAME bytes, parsed as a
\* BobToAlice; the error of read_one becomes an io::Error of kind InvalidData.
read_request ==
    LET message == read_one(codec_io, MAX_FRAME)
    IN  read("read_request",
             IF IsOk(message) THEN from_slice_BobToAlice(message[2])
             ELSE Err("InvalidData"))

\* Codec::read_response: the same, parsed as an AliceToBob.
read_response ==
    LET message == read_one(codec_io, MAX_FRAME)
    IN  read("read_response",
             IF IsOk(message) THEN from_slice_AliceToBob(message[2])
             ELSE Err("InvalidData"))

\* ------------------------------------------------------ network/transport.rs
\* .timeout(Duration::from_secs(20)), in seconds.
UPGRADE_TIMEOUT == 20

\* The upgrades of a connection are still running.
Upgrading == upgrade.stage \in {"dialing", "connected", "authenticated"}

\* A step of the upgrades has ended: on to the next stage, or out with the
\* error.
Upgraded(stage, step) ==
    [upgrade EXCEPT !.stage = stage, !.steps = Append(@, step)]
UpgradeFailed(e) ==
    [upgrade EXCEPT !.stage = "failed", !.ret = Err(e)]

\* websocket.or_transport(dns): dial of an address, by the websocket transport
\* if the address is one of its own, by dns over TorTcpConfig if not; or a
\* connection a listener of either has accepted.  The timeout runs from here.
or_transport(dir, via) ==
    /\ upgrade.stage \in {"none", "yielded", "failed"}
    /\ upgrade' = [NoUpgrade EXCEPT !.via = via,
                                    !.stage = IF dir = "dial" THEN "dialing"
                                              ELSE "connected"]
    /\ UNCHANGED <<dbvars, transportvars, torvars, codecvars>>

\* The future of the dial resolves: a connection, or the error of the
\* transport below.
connected ==
    /\ upgrade.stage = "dialing"
    /\ upgrade.elapsed < UPGRADE_TIMEOUT
    /\ \E established \in BOOLEAN :
          upgrade' = IF established THEN Upgraded("connected", "connect")
                     ELSE UpgradeFailed("Transport")
    /\ UNCHANGED <<dbvars, transportvars, torvars, codecvars>>

\* An authenticate that lets a connection on whose handshake fails.
authenticate_noise_anyway ==
    /\ upgrade.stage = "connected"
    /\ upgrade.elapsed < UPGRADE_TIMEOUT
    /\ \E outcome \in {"unsupported", "handshake failed", "12D3KooWPD4u", "12D3KooWBob"} :
          upgrade' =
             IF outcome = "unsupported"
             THEN UpgradeFailed("Upgrade(Select(Failed))")
             ELSE [Upgraded("authenticated", "noise") EXCEPT !.peer = outcome]
    /\ UNCHANGED <<dbvars, transportvars, torvars, codecvars>>

\* .upgrade(Version::V1).authenticate(noise): noise is negotiated, the XX
\* handshake runs, and the static key it proves gives the peer's id; or the
\* peer does not speak noise; or the handshake fails.
authenticate_noise ==
    /\ upgrade.stage = "connected"
    /\ upgrade.elapsed < UPGRADE_TIMEOUT
    /\ \E outcome \in {"unsupported", "handshake failed", "12D3KooWPD4u", "12D3KooWBob"} :
          upgrade' =
             CASE outcome = "unsupported" -> UpgradeFailed("Upgrade(Select(Failed))")
               [] outcome = "handshake failed" -> UpgradeFailed("Upgrade(Apply(noise))")
               [] OTHER -> [Upgraded("authenticated", "noise") EXCEPT !.peer = outcome]
    /\ UNCHANGED <<dbvars, transportvars, torvars, codecvars>>

\* .multiplex(SelectUpgrade::new(yamux, mplex)) and .map(..): yamux if the
\* peer speaks it, mplex if it speaks that, no connection if neither; with the
\* multiplexer the transport yields (peer, StreamMuxerBox).
multiplex ==
    /\ upgrade.stage = "authenticated"
    /\ upgrade.elapsed < UPGRADE_TIMEOUT
    /\ \E theirs \in SUBSET {"yamux", "mplex"} :
          upgrade' =
             IF theirs = {}
             THEN UpgradeFailed("Upgrade(Select(Failed))")
             ELSE LET muxer == IF "yamux" \in theirs THEN "yamux" ELSE "mplex"
                  IN  [Upgraded("yielded", muxer) EXCEPT
                          !.muxer = muxer,
                          !.ret = Ok(<<upgrade.peer, muxer>>)]
    /\ UNCHANGED <<dbvars, transportvars, torvars, codecvars>>

\* A second goes by while the upgrades run.
tick ==
    /\ Upgrading
    /\ upgrade.elapsed < UPGRADE_TIMEOUT
    /\ upgrade' = [upgrade EXCEPT !.elapsed = @ + 1]
    /\ UNCHANGED <<dbvars, transportvars, torvars, codecvars>>

\* .timeout(..): the upgrades have not ended when the time is up.
timeout ==
    /\ Upgrading
    /\ upgrade.elapsed = UPGRADE_TIMEOUT
    /\ upgrade' = UpgradeFailed("Timeout")
    /\ UNCHANGED <<dbvars, transportvars, torvars, codecvars>>

\* --------------------------------------------------------- specifications
\* The swap states of an open store: concurrent writers of the tree "swaps",
\* with every record.
Next ==
    \/ \E p \in Procs, swap_id \in Uuid, state \in Swap :
          insert_latest_state_get(p, swap_id, state)
    \/ \E p \in Procs : insert_latest_state_cas(p)
    \/ \E p \in Procs : flush_async(p)

Spec == Init /\ [][Next]_vars

\* The ids a task writes when every swap has one owner: no two tasks write the
\* same id.
OwnIds(p) == IF p = "t1" THEN {1} ELSE Uuid \ {1}

\* The swap states of an open store whose swaps have one writer each: the
\* calls of the two tasks overlap in time, never on an id.
NextOwners ==
    \/ \E p \in Procs : \E swap_id \in OwnIds(p), state \in Swap :
          insert_latest_state_get(p, swap_id, state)
    \/ \E p \in Procs : insert_latest_state_cas(p)
    \/ \E p \in Procs : flush_async(p)

SpecOwners == Init /\ [][NextOwners]_vars

\* The records the writers of the crash specification write, one of each
\* role: what reaches the disk, and when, does not depend on the record.
CrashSwaps == {[tag |-> "Alice", inner |-> "Started"],
               [tag |-> "Bob", inner |-> "Started"]}

\* The swap states across crashes: writers and readers of the tree "swaps",
\* sled's periodic flush, and the crash and reopen of the store.
NextCrash ==
    \/ \E p \in Procs, swap_id \in Uuid, state \in CrashSwaps :
          insert_latest_state_get(p, swap_id, state)
    \/ \E p \in Procs : insert_latest_state_cas(p)
    \/ \E p \in Procs : flush_async(p)
    \/ \E p \in Procs, swap_id \in Uuid : call_get_state(p, swap_id)
    \/ BackgroundFlush
    \/ Crash

SpecCrash == Init /\ [][NextCrash]_vars

\* The peer ids next to the swap states, across crashes: writers of the tree
\* "peers" and of the tree "swaps".
NextPeers ==
    \/ \E p \in Procs, swap_id \in Uuid, peer_id \in PeerId :
          insert_peer_id_insert(p, swap_id, peer_id)
    \/ \E p \in Procs, swap_id \in Uuid :
          insert_latest_state_get(p, swap_id, [tag |-> "Alice", inner |-> "Done"])
    \/ \E p \in Procs : insert_latest_state_cas(p)
    \/ \E p \in Procs : flush_async(p)
    \/ BackgroundFlush
    \/ Crash

SpecPeers == Init /\ [][NextPeers]_vars

\* The peer ids of an open store: concurrent writers and readers of the tree
\* "peers".
NextPeerIds ==
    \/ \E p \in Procs, swap_id \in Uuid, peer_id \in PeerId :
          insert_peer_id_insert(p, swap_id, peer_id)
    \/ \E p \in Procs : flush_async(p)
    \/ \E p \in Procs, swap_id \in Uuid : call_get_peer_id(p, swap_id)

SpecPeerIds == Init /\ [][NextPeerIds]_vars

\* The two trees of an open store: concurrent writers of the tree "swaps" and
\* of the tree "peers".
NextTrees ==
    \/ \E p \in Procs, swap_id \in Uuid, state \in CrashSwaps :
          insert_latest_state_get(p, swap_id, state)
    \/ \E p \in Procs : insert_latest_state_cas(p)
    \/ \E p \in Procs, swap_id \in Uuid, peer_id \in PeerId :
          insert_peer_id_insert(p, swap_id, peer_id)
    \/ \E p \in Procs : flush_async(p)

SpecTrees == Init /\ [][NextTrees]_vars

\* Reads of ids that have and have not been written, across crashes: one
\* record and one peer id are enough to tell a key that is there from one that
\* is not, and so are one task that writes and one that reads.
NextAbsent ==
    \/ \E swap_id \in Uuid :
          insert_latest_state_get("t1", swap_id, [tag |-> "Bob", inner |-> "Done"])
    \/ \E p \in Procs : insert_latest_state_cas(p)
    \/ \E swap_id \in Uuid : insert_peer_id_insert("t1", swap_id, <<18, 1>>)
    \/ \E p \in Procs : flush_async(p)
    \/ \E swap_id \in Uuid : call_get_state("t2", swap_id)
    \/ \E swap_id \in Uuid : call_get_peer_id("t2", swap_id)
    \/ Crash

SpecAbsent == Init /\ [][NextAbsent]_vars

\* The transport: dial and listen_on on every address, and the futures dial
\* returns.  TorTcpConfig keeps nothing from one call to the next, so every
\* call is followed from the state before the first.
NextTransport ==
    \/ /\ transport_op = NoTransportOp
       /\ \E self \in TorTcpConfig, addr \in Multiaddr : dial(self, addr)
    \/ /\ transport_op = NoTransportOp
       /\ \E self \in TorTcpConfig, addr \in Multiaddr : listen_on(self, addr)
    \/ do_tor_dial
    \/ inner_dial

SpecTransport == Init /\ [][NextTransport]_vars

\* The connection to the control port: the builders and every step of
\* into_authenticated_connection, on every copy.
NextTor ==
    \E c \in ConnIds :
        \/ \E port \in {DEFAULT_SOCKS5_PORT, 9150} : with_socks5_port(c, port)
        \/ \E port \in {DEFAULT_CONTROL_PORT, 9151} : with_control_port(c, port)
        \/ assert_tor_running_send(c)
        \/ assert_tor_running_text(c)
        \/ init_unauthenticated_connection(c)
        \/ load_protocol_info(c)
        \/ authenticate(c)
        \/ into_authenticated(c)

SpecTor == Init /\ [][NextTor]_vars

\* The onion services of one connection that authenticates.
NextServices ==
    \E c \in {1} :
        \/ assert_tor_running_send(c)
        \/ assert_tor_running_text(c)
        \/ init_unauthenticated_connection(c)
        \/ load_protocol_info(c)
        \/ authenticate(c)
        \/ into_authenticated(c)
        \/ \E service_port \in Ports, onion_port \in Ports, tor_key \in {"TorSecretKeyV3"} :
              add_service(c, service_port, onion_port, tor_key)
        \/ \E services \in Services, tor_key \in {"TorSecretKeyV3"} :
              add_services(c, services, tor_key)

SpecServices == Init /\ [][NextServices]_vars


\* The codec: both writers on every message, the peer's frames, both readers.
NextCodec ==
    \/ \E req \in BobToAlice : write_request(req)
    \/ \E res \in AliceToBob : write_response(res)
    \/ \E frame \in PeerFrames : peer_writes(frame)
    \/ read_request
    \/ read_response

SpecCodec == Init /\ [][NextCodec]_vars

\* The transport of build: connections dialled and accepted, over websocket
\* and over dns, and their upgrades against the clock.
NextBuild ==
    \/ \E dir \in {"dial", "listen"}, via \in {"websocket", "dns"} : or_transport(dir, via)
    \/ connected
    \/ authenticate_noise
    \/ multiplex
    \/ tick
    \/ timeout

SpecBuild == Init /\ [][NextBuild]_vars

\* The enumerations, on every store an earlier run can have left.
NextEnum ==
    \/ \E p \in Procs : call_all_alice(p)
    \/ \E p \in Procs : call_all_bob(p)
    \/ \E p \in Procs : call_unfinished_alice(p)

SpecEnum == InitStored /\ [][NextEnum]_vars

\* ------------------------------------------------------------------ claims
\* What a call returns once its conditional write has landed.
PastCas(p) == ret[p] \in {Ok(Unit), Err(CouldNotFlush)}

\* Task p has finished insert_latest_state(swap_id, _).
DoneInsert(p, swap_id) ==
    /\ pc[p] = "done"
    /\ call[p].op = "insert_latest_state"
    /\ call[p].swap_id = swap_id

\* Two finished calls on one id of which q had read the same old_value as p and
\* had not written when p did its compare_and_swap.
Raced(p, q) ==
    /\ p # q
    /\ DoneInsert(p, call[p].swap_id)
    /\ DoneInsert(q, call[p].swap_id)
    /\ q \in raced[p]

\* What get_state finds for an encoded Option read from the tree.
Decoded(encoded) ==
    IF encoded = None THEN Err(NotFound) ELSE deserialize_Swap(encoded[1])

\* C1 as stated: of two insert_latest_state calls on one id that both read the
\* same prior value before either wrote, exactly one gets past its conditional
\* write, the other returns the conflict error, and the stored value is the
\* winner's record.  (A failed flush of the winner is not held against the
\* claim: the statement checked here is weaker than the claim.)
C1_ExactlyOneSucceeds ==
    \A p, q \in Procs :
        Raced(p, q) =>
            /\ PastCas(p)
            /\ ret[q] = Err(StoredSwapChanged)
            /\ (ret[p] = Ok(Unit) => get_state(call[p].swap_id) = Ok(call[p].state))

\* C1 as amended: the same, for a first writer whose record differs from the
\* prior value; a first writer that rewrites the prior value unchanged lets the
\* second conditional write land too.
C1_ExactlyOneUnlessUnchanged ==
    \A p, q \in Procs :
        Raced(p, q) =>
            /\ PastCas(p)
            /\ IF Some(new_value(p)) # old_value[p]
               THEN /\ ret[q] = Err(StoredSwapChanged)
                    /\ (ret[p] = Ok(Unit) =>
                           get_state(call[p].swap_id) = Ok(call[p].state))
               ELSE PastCas(q)

\* C1's case: a race on an id that held a record, won by p.
C1_Witness ==
    \E p, q \in Procs :
        /\ Raced(p, q)
        /\ old_value[p] # None
        /\ ret[p] = Ok(Unit)
        /\ ret[q] = Err(StoredSwapChanged)

\* Two finished calls on one id whose executions overlapped.
Overlapped(p, q) ==
    /\ p # q
    /\ DoneInsert(p, call[p].swap_id)
    /\ DoneInsert(q, call[p].swap_id)
    /\ q \in overlapped[p]

\* C2 as stated: of two overlapping insert_latest_state calls on one id at most
\* one gets past its conditional write; the other returns the conflict error.
C2_AtMostOneSucceeds ==
    \A p, q \in Procs :
        Overlapped(p, q) => ~(PastCas(p) /\ PastCas(q))

\* C2 as amended: two overlapping calls on one id never both return the
\* conflict error; both get past the conditional write when the second read
\* after the first wrote, and of two that both read before either wrote both
\* get past it only when the first rewrote the value it read unchanged.
C2_BothOnlyIfSecondSawFirst ==
    \A p, q \in Procs :
        Overlapped(p, q) =>
            /\ PastCas(p) \/ PastCas(q)
            /\ (PastCas(p) /\ PastCas(q) /\ q \in raced[p]) =>
                  old_value[q] = Some(new_value(p))

\* C2's case: two overlapping calls that both returned Ok, the second having
\* read after the first wrote.
C2_Witness ==
    \E p, q \in Procs :
        /\ Overlapped(p, q)
        /\ ret[p] = Ok(Unit) /\ ret[q] = Ok(Unit)
        /\ q \notin raced[p] /\ p \notin raced[q]
        /\ old_value[q] = Some(new_value(p))
        /\ new_value(q) # new_value(p)

Acknowledged(p, op) ==
    /\ pc[p] = "done"
    /\ call[p].op = op
    /\ ret[p] = Ok(Unit)
    /\ ~superseded[p]

\* What get_peer_id finds for an encoded Option read from the tree.
DecodedPeer(encoded) ==
    IF encoded = None THEN Err(NotFound)
    ELSE LET peer_id == deserialize_String(encoded[1])
         IN  IF IsOk(peer_id) THEN from_str(peer_id[2]) ELSE peer_id

\* C4: once insert_latest_state(i, r) or insert_peer_id(i, p) has returned Ok
\* and no later write to i has been made, the record is in the durable image
\* (Ok is not returned before the flush has completed) and get_state(i) = r,
\* get_peer_id(i) = p, before and after a crash and reopen.
C4_AcknowledgedIsDurable ==
    \A p \in Procs :
        /\ Acknowledged(p, "insert_latest_state") =>
              /\ Decoded(tree_get(disk.swaps, key(p))) = Ok(call[p].state)
              /\ get_state(call[p].swap_id) = Ok(call[p].state)
        /\ Acknowledged(p, "insert_peer_id") =>
              /\ DecodedPeer(tree_get(disk.peers, key(p))) = Ok(call[p].peer_id)
              /\ get_peer_id(call[p].swap_id) = Ok(call[p].peer_id)

\* C4's case: both writes to one id were acknowledged, the process crashed,
\* and the reopened store returns both.
C4_Witness ==
    \E p, q \in Procs :
        /\ crashes > 0
        /\ Acknowledged(p, "insert_latest_state")
        /\ Acknowledged(q, "insert_peer_id")
        /\ call[q].swap_id = call[p].swap_id
        /\ get_state(call[p].swap_id) = Ok(call[p].state)
        /\ get_peer_id(call[p].swap_id) = Ok(call[q].peer_id)

\* Task p's insert_latest_state returned Ok and no write to its id has taken
\* effect since its own.
LastSuccessful(p) ==
    /\ DoneInsert(p, call[p].swap_id)
    /\ ret[p] = Ok(Unit)
    /\ ~superseded[p]

\* C5: get_state(i) returns, unchanged, the record of the last successful
\* insert_latest_state on i; the record of an earlier successful write is not
\* returned once a later one has succeeded.
C5_GetReturnsLastWrite ==
    \A p \in Procs :
        LastSuccessful(p) => get_state(call[p].swap_id) = Ok(call[p].state)

\* C5's case: two successful writes of different records to one id, one
\* after the other; get_state returns the second.
C5_Witness ==
    \E p, q \in Procs :
        /\ LastSuccessful(p)
        /\ DoneInsert(q, call[p].swap_id)
        /\ ret[q] = Ok(Unit)
        /\ superseded[q]
        /\ call[q].state # call[p].state
        /\ get_state(call[p].swap_id) = Ok(call[p].state)

\* C6 as stated: get_state returns the latest durably flushed record at call
\* time, never one whose flush has not completed.
C6_ReadsOnlyFlushed ==
    [][\A g \in Procs, swap_id \in Uuid :
          call_get_state(g, swap_id) =>
              ret'[g] = Decoded(tree_get(disk.swaps, serialize_Uuid(swap_id)))]_vars

\* C6 as amended: get_state returns the record of the latest conditional write
\* that took effect, also while that write's flush has not completed; the read
\* changes neither tree nor any other task's call.
C6_ReadsLatestWritten ==
    [][\A g \in Procs, swap_id \in Uuid :
          call_get_state(g, swap_id) =>
              /\ \A w \in Procs :
                    (/\ Wrote(w, "insert_latest_state", swap_id)
                     /\ ~superseded[w]
                     /\ pc[w] = "flush" \/ (pc[w] = "done" /\ ret[w] = Ok(Unit)))
                    => ret'[g] = Ok(call[w].state)
              /\ UNCHANGED <<swaps, peers, disk>>
              /\ \A w \in Procs \ {g} :
                    pc'[w] = pc[w] /\ ret'[w] = ret[w] /\ call'[w] = call[w]]_vars

\* C6's case: a read has returned the record of a write whose flush has not
\* completed and which is not on disk.
C6_Witness ==
    \E g, w \in Procs :
        /\ pc[g] = "done" /\ call[g].op = "get_state"
        /\ pc[w] = "flush" /\ call[w].op = "insert_latest_state"
        /\ call[w].swap_id = call[g].swap_id
        /\ ret[g] = Ok(call[w].state)
        /\ tree_get(disk.swaps, key(w)) # Some(new_value(w))

\* The role of the record stored for swap_id, "" if there is none.
RoleOf(swap_id) ==
    IF IsOk(get_state(swap_id)) THEN get_state(swap_id)[2].tag ELSE ""

\* C7 as stated: while the store stays open, the role of the record stored
\* for an id never changes.
C7_RoleNeverChanges ==
    [][\A swap_id \in Uuid :
          (crashes' = crashes /\ RoleOf(swap_id) # "" /\ RoleOf(swap_id)' # "")
          => RoleOf(swap_id)' = RoleOf(swap_id)]_vars

\* C7 as amended: the store does not look at the role.  A conditional write
\* that finds the value it read lands whatever the role of the stored record,
\* and the stored role is then the role of the record written; the role
\* changes by no other step of an open store.
C7_RoleIsThatOfLastWrite ==
    [][/\ \A p \in Procs :
             (insert_latest_state_cas(p) /\ tree_get(swaps, key(p)) = old_value[p])
             => /\ pc'[p] = "flush"
                /\ get_state(call[p].swap_id)' = Ok(call[p].state)
       /\ \A swap_id \in Uuid :
             (crashes' = crashes /\ swaps' # swaps
                 /\ RoleOf(swap_id)' # RoleOf(swap_id))
             => \E p \in Procs :
                   /\ insert_latest_state_cas(p)
                   /\ call[p].swap_id = swap_id
                   /\ call[p].state.tag = RoleOf(swap_id)']_vars

\* C7's case: a successful write has replaced a record of one role by a
\* record of the other.
C7_Witness ==
    \E p \in Procs :
        /\ LastSuccessful(p)
        /\ old_value[p] # None
        /\ Decoded(old_value[p])[2].tag # call[p].state.tag
        /\ RoleOf(call[p].swap_id) = call[p].state.tag

\* C8 as stated: while the store stays open, a peer id that is stored for an
\* id is the one get_peer_id returns in every later state.
C8_PeerIdWriteOnce ==
    [][\A swap_id \in Uuid :
          (crashes' = crashes /\ IsOk(get_peer_id(swap_id)))
          => get_peer_id(swap_id)' = get_peer_id(swap_id)]_vars

\* C8 as amended: insert_peer_id replaces whatever is stored, get_peer_id
\* returns the peer id of the latest insert_peer_id, and the peer id of an
\* open store changes by no other step.
C8_PeerIdIsThatOfLastInsert ==
    [][/\ \A p \in Procs, swap_id \in Uuid, peer_id \in PeerId :
             insert_peer_id_insert(p, swap_id, peer_id)
             => get_peer_id(swap_id)' = Ok(peer_id)
       /\ \A swap_id \in Uuid :
             (crashes' = crashes /\ peers' # peers
                 /\ get_peer_id(swap_id)' # get_peer_id(swap_id))
             => \E p \in Procs, peer_id \in PeerId :
                   insert_peer_id_insert(p, swap_id, peer_id)]_vars

\* C8's case: an acknowledged insert_peer_id has replaced the peer id of an
\* earlier acknowledged insert_peer_id for the same id.
C8_Witness ==
    \E p, q \in Procs :
        /\ Acknowledged(p, "insert_peer_id")
        /\ pc[q] = "done" /\ call[q].op = "insert_peer_id"
        /\ ret[q] = Ok(Unit) /\ superseded[q]
        /\ call[q].swap_id = call[p].swap_id
        /\ call[q].peer_id # call[p].peer_id
        /\ get_peer_id(call[p].swap_id) = Ok(call[p].peer_id)

\* C11: with one writer per id, insert_latest_state never returns the conflict
\* error: its conditional write lands whether or not the id has a record and
\* whether or not the new record equals the stored one, and the call returns
\* Ok when its flush succeeds.
C11_SingleWriterNeverConflicts ==
    \A p \in Procs :
        /\ ret[p] # Err(StoredSwapChanged)
        /\ DoneInsert(p, call[p].swap_id) =>
              /\ PastCas(p)
              /\ get_state(call[p].swap_id) = Ok(call[p].state)

\* C11's case: a writer has rewritten the record its id held, unchanged, and
\* the other writer has created the record of its id; both returned Ok.
C11_Witness ==
    \E p, q \in Procs :
        /\ DoneInsert(p, call[p].swap_id) /\ ret[p] = Ok(Unit)
        /\ old_value[p] = Some(new_value(p))
        /\ DoneInsert(q, call[q].swap_id) /\ ret[q] = Ok(Unit)
        /\ old_value[q] = None

\* C12: the trees of an open store change only by the conditional write of
\* insert_latest_state(i, _), which changes the record of i and leaves the
\* tree "peers" and the record of every other id alone, and by the insert of
\* insert_peer_id(i, _), which changes the peer id of i and leaves the tree
\* "swaps" and the peer id of every other id alone.
C12_KeyAndTreeIndependence ==
    [][/\ (crashes' = crashes /\ swaps' # swaps) =>
             \E p \in Procs :
                /\ insert_latest_state_cas(p)
                /\ peers' = peers
                /\ \A swap_id \in Uuid \ {call[p].swap_id} :
                      get_state(swap_id)' = get_state(swap_id)
       /\ (crashes' = crashes /\ peers' # peers) =>
             \E p \in Procs :
                /\ call'[p].op = "insert_peer_id"
                /\ insert_peer_id_insert(p, call'[p].swap_id, call'[p].peer_id)
                /\ swaps' = swaps
                /\ \A swap_id \in Uuid \ {call'[p].swap_id} :
                      get_peer_id(swap_id)' = get_peer_id(swap_id)]_vars

\* C12's case: an id has a record and a peer id, another id has a record, and
\* the writes that came later have left the earlier ones as they were.
C12_Witness ==
    \E p, q \in Procs : \E swap_id \in Uuid \ {call[p].swap_id} :
        /\ Acknowledged(p, "insert_peer_id")
        /\ get_peer_id(call[p].swap_id) = Ok(call[p].peer_id)
        /\ IsOk(get_state(call[p].swap_id))
        /\ Acknowledged(q, "insert_latest_state")
        /\ call[q].swap_id = swap_id
        /\ get_state(swap_id) = Ok(call[q].state)
        /\ get_peer_id(swap_id) = Err(NotFound)

\* A key appears in a tree only by the write of the insert for its id.
AppearsOnlyByInsert ==
    \A swap_id \in Uuid :
        /\ (swaps' # swaps /\ get_state(swap_id) = Err(NotFound)
               /\ get_state(swap_id)' # Err(NotFound))
           => \E p \in Procs : /\ insert_latest_state_cas(p)
                                /\ call[p].swap_id = swap_id
        /\ (peers' # peers /\ get_peer_id(swap_id) = Err(NotFound)
               /\ get_peer_id(swap_id)' # Err(NotFound))
           => \E p \in Procs :
                 /\ call'[p].op = "insert_peer_id" /\ call'[p].swap_id = swap_id
                 /\ insert_peer_id_insert(p, swap_id, call'[p].peer_id)

\* A key that is in a tree is in it after the step.
NeverDisappears ==
    \A swap_id \in Uuid :
        /\ (swaps' # swaps /\ get_state(swap_id) # Err(NotFound))
           => get_state(swap_id)' # Err(NotFound)
        /\ (peers' # peers /\ get_peer_id(swap_id) # Err(NotFound))
           => get_peer_id(swap_id)' # Err(NotFound)

\* A read returns the not-found error exactly for a key that is not in the
\* tree, and leaves the store as it is.
ReadsOfAbsent ==
    \A p \in Procs, swap_id \in Uuid :
        /\ (calls' # calls /\ call_get_state(p, swap_id)) =>
              /\ ret'[p] = Err(NotFound)
                    <=> tree_get(swaps, serialize_Uuid(swap_id)) = None
              /\ UNCHANGED <<swaps, peers, disk>>
        /\ (calls' # calls /\ call_get_peer_id(p, swap_id)) =>
              /\ ret'[p] = Err(NotFound)
                    <=> tree_get(peers, serialize_Uuid(swap_id)) = None
              /\ UNCHANGED <<swaps, peers, disk>>

\* C13 as stated: get_state(id) and get_peer_id(id) return the not-found
\* error exactly as long as no insert for id has taken effect: a key appears
\* only by its insert and, once there, is there in every later state.
C13_NotFoundIffNeverWritten ==
    [][AppearsOnlyByInsert /\ NeverDisappears /\ ReadsOfAbsent]_vars

\* C13 as amended: the same while the store stays open; after a crash and
\* reopen the keys are those of the durable image, so an insert that took
\* effect and reached no flush is not found again.
C13_NotFoundIffNotInTree ==
    [][/\ AppearsOnlyByInsert
       /\ ReadsOfAbsent
       /\ crashes' = crashes => NeverDisappears
       /\ (crashes' # crashes /\ Crash) => \A swap_id \in Uuid :
             /\ get_state(swap_id)' = Err(NotFound)
                   <=> tree_get(disk.swaps, serialize_Uuid(swap_id)) = None
             /\ get_peer_id(swap_id)' = Err(NotFound)
                   <=> tree_get(disk.peers, serialize_Uuid(swap_id)) = None]_vars

\* C13's case: after a crash a read has returned the not-found error for an
\* id whose insert_latest_state had taken effect before the crash.
C13_Witness ==
    \E g, w \in Procs :
        /\ crashes > 0
        /\ pc[g] = "done" /\ call[g].op = "get_state"
        /\ ret[g] = Err(NotFound)
        /\ pc[w] = "crashed" /\ call[w].op = "insert_latest_state"
        /\ call[w].swap_id = call[g].swap_id

\* The address has an onion-v2 or onion-v3 segment.
HasOnion(addr) == \E i \in DOMAIN addr : addr[i][1] \in {"onion", "onion3"}

\* The calls made to the SOCKS5 proxy by the call of the transport in progress.
SocksCalls ==
    {i \in DOMAIN transport_calls :
        transport_calls[i].callee = "Socks5Stream::connect"}

\* C14: dial of an address without onion segment makes one call, the inner
\* transport's dial with the address as given, and none to the SOCKS5 proxy,
\* neither when it is called nor when the future it returned runs.
C14_NonOnionDialsInner ==
    (transport_op.op = "dial" /\ ~HasOnion(transport_op.addr)) =>
        /\ Len(transport_calls) = 1
        /\ transport_calls[1].callee = "inner.dial"
        /\ transport_calls[1].addr = transport_op.addr
        /\ SocksCalls = {}
        /\ IsOk(transport_op.ret) =>
              transport_op.ret[2].kind \in {"inner_dial", "TcpStream"}

\* C14's case: an address of several segments, none of them onion, has been
\* dialled and the future of the inner transport has connected.
C14_Witness ==
    /\ transport_op.op = "dial"
    /\ Len(transport_op.addr) > 1
    /\ ~HasOnion(transport_op.addr)
    /\ transport_op.ret = Ok(TcpStream)

\* C15: listen_on makes one call, the inner transport's listen_on with the
\* address as given, whatever the address, returns what the inner transport
\* returned, and makes no call to the SOCKS5 proxy.
C15_ListenDelegates ==
    transport_op.op = "listen_on" =>
        /\ Len(transport_calls) = 1
        /\ transport_calls[1].callee = "inner.listen_on"
        /\ transport_calls[1].addr = transport_op.addr
        /\ SocksCalls = {}
        /\ IsOk(transport_op.ret) => transport_op.ret[2] = TcpListenStream

\* C15's case: listen_on of an address with an onion segment.
C15_Witness ==
    /\ transport_op.op = "listen_on"
    /\ HasOnion(transport_op.addr)
    /\ transport_op.ret = Ok(TcpListenStream)
    /\ Len(transport_calls) = 1

\* How far a connection to the control port is.
Rank(state) ==
    CASE state = "Disconnected" -> 0
      [] state = "Connected" -> 1
      [] state = "Authenticated" -> 2

\* C16: the state of a connection to the control port only moves forward, one
\* state at a time, Disconnected -> Connected -> Authenticated; a connection
\* on which a step of into_authenticated_connection has failed (the check, the
\* connect, the protocol info, the auth data, the authentication) has returned
\* the error, is not Authenticated, and changes no more.
C16_ForwardOnlyFailureTerminal ==
    [][\A c \in ConnIds :
          /\ Rank(tor_conn'[c].state) - Rank(tor_conn[c].state) \in {0, 1}
          /\ tor_conn'[c].failed_at # "none" =>
                /\ tor_conn'[c].state # "Authenticated"
                /\ tor_conn'[c].pc = "returned"
                /\ ~IsOk(tor_conn'[c].ret)
          /\ tor_conn[c].failed_at # "none" =>
                /\ tor_conn'[c] = tor_conn[c]
                /\ tor_requests'[c] = tor_requests[c]]_vars

\* A connection has failed at the authentication, after it was Connected, and
\* another copy of the same value has become Authenticated.
C16_Witness ==
    \E c, d \in ConnIds :
        /\ tor_conn[c].failed_at = "authenticate"
        /\ tor_conn[c].state = "Connected"
        /\ tor_conn[c].ret = Err("Failed to authenticate with Tor")
        /\ tor_conn[d].state = "Authenticated"
        /\ tor_conn[d].self = tor_conn[c].self

\* The requests of the authentication exchange a connection has sent.
Exchange(c) ==
    {i \in 1..Len(tor_requests[c]) :
        tor_requests[c][i].callee \in {"PROTOCOLINFO", "AUTHENTICATE"}}

\* The body the check has read has the whole sentence in it.
Confirmed(text) ==
    /\ text # None
    /\ \E i \in 1..Len(text[1]) :
          \A j \in 1..Len(Congratulations) :
              /\ i + j - 1 <= Len(text[1])
              /\ text[1][i + j - 1] = Congratulations[j]

\* A connection that is past the check, or has sent anything to the control
\* port, has first sent the check request to its SOCKS5 proxy and read a body
\* with the sentence.
CheckedFirst(c) ==
    (\/ Len(tor_requests[c]) > 1
     \/ tor_conn[c].state # "Disconnected"
     \/ tor_conn[c].pc \in {"connect", "load_protocol_info", "authenticate",
                            "into_authenticated"}) =>
        /\ tor_requests[c][1].callee = "get https://check.torproject.org"
        /\ tor_requests[c][1].to = tor_conn[c].self.socks5_address
        /\ Confirmed(tor_conn[c].text)

\* C17 as stated: the check comes first, and every failed check returns the
\* error "Tor is currently not running" and leaves the connection short of
\* Authenticated.
C17_FailedCheckIsNotRunning ==
    \A c \in ConnIds :
        /\ CheckedFirst(c)
        /\ tor_conn[c].failed_at = "assert_tor_running" =>
              /\ tor_conn[c].ret = Err("Tor is currently not running")
              /\ tor_conn[c].state # "Authenticated"

\* C17: the check comes first: nothing goes to the control port before the
\* check request through the SOCKS5 proxy has returned a body with the exact
\* sentence.  A failed check leaves the connection Disconnected with nothing
\* sent to the control port; it returns "Tor is currently not running" exactly
\* when a body was read and lacks the sentence, and the error of the step that
\* failed (the proxy, the client, the request, the read) otherwise.
C17_CheckFirst ==
    \A c \in ConnIds :
        /\ CheckedFirst(c)
        /\ tor_conn[c].failed_at = "assert_tor_running" =>
              /\ tor_conn[c].state = "Disconnected"
              /\ Len(tor_requests[c]) <= 1
              /\ Exchange(c) = {}
              /\ \/ tor_conn[c].ret = Err("Tor is currently not running")
                 \/ tor_conn[c].ret = Err("reqwest::Error")
                 \/ tor_conn[c].ret = Err("tor proxy should be there")
              /\ tor_conn[c].ret = Err("Tor is currently not running") <=>
                    (tor_conn[c].text # None /\ ~Confirmed(tor_conn[c].text))

\* One connection's check request failed on its way through the proxy, and
\* returned the client's error; another has read the sentence cut short and
\* returned "Tor is currently not running"; neither has sent anything else.
C17_Witness ==
    \E c, d \in ConnIds :
        /\ tor_conn[c].failed_at = "assert_tor_running"
        /\ tor_conn[c].ret = Err("reqwest::Error")
        /\ Len(tor_requests[c]) = 1
        /\ tor_conn[d].failed_at = "assert_tor_running"
        /\ tor_conn[d].ret = Err("Tor is currently not running")
        /\ tor_conn[d].text # None
        /\ Len(tor_conn[d].text[1]) = Len(Congratulations) - 1
        /\ Len(tor_requests[d]) = 1

\* C18: every onion service add_service or add_services has provisioned maps
\* each of its onion ports to a port on the loopback address, whatever the
\* caller passed.
C18_ServicesMapToLoopback ==
    (tor_service.op # "none" /\ IsOk(tor_service.ret)) =>
        \A i \in 1..Len(tor_service.listeners) :
            tor_service.listeners[i][2][1] = <<127, 0, 0, 1>>

\* The last call of Codec was a read of a frame that this writer wrote.
ReadBack(op, variants) ==
    /\ codec_op.op = op
    /\ codec_op.written # None
    /\ codec_op.written[1].variant \in variants

\* C19: read_request and read_response refuse a frame whose length is over
\* 1024 bytes with an error, and produce no message from it; a frame of at
\* most 1024 bytes that write_request (write_response) wrote is read by
\* read_request (read_response) as the message that was written.
C19_CodecBoundary ==
    /\ (codec_op.op \in {"read_request", "read_response"} /\ codec_op.len > MAX_FRAME) =>
          /\ ~IsOk(codec_op.ret)
          /\ codec_op.ret[2] = "InvalidData"
    /\ (/\ \/ ReadBack("read_request", {"AmountsFromBtc", "AmountsFromXmr"})
           \/ ReadBack("read_response", {"Amounts"})
        /\ codec_op.len <= MAX_FRAME) =>
          /\ IsOk(codec_op.ret)
          /\ codec_op.ret[2] = codec_op.written[1]

\* read_request has refused a frame one byte over the limit, and so has
\* read_response.
C19_Witness ==
    /\ codec_op.op = "read_request"
    /\ codec_op.len = MAX_FRAME + 1
    /\ codec_op.ret = Err("InvalidData")

\* C20: whatever write_request has written, read_request reads as the same
\* request; whatever write_response has written, read_response reads as the
\* same response.
C20_WriteReadSymmetry ==
    /\ ReadBack("read_request", {"AmountsFromBtc", "AmountsFromXmr"}) =>
          /\ IsOk(codec_op.ret)
          /\ codec_op.ret[2] \in BobToAlice
          /\ codec_op.ret[2].variant = codec_op.written[1].variant
          /\ codec_op.ret[2].amount = codec_op.written[1].amount
    /\ ReadBack("read_response", {"Amounts"}) =>
          /\ IsOk(codec_op.ret)
          /\ codec_op.ret[2] \in AliceToBob
          /\ codec_op.ret[2].btc = codec_op.written[1].btc
          /\ codec_op.ret[2].xmr = codec_op.written[1].xmr

\* read_response has returned the response write_response wrote, with two
\* amounts that differ and one of several digits.
C20_Witness ==
    /\ ReadBack("read_response", {"Amounts"})
    /\ codec_op.written[1].btc = 120
    /\ codec_op.written[1].xmr = 5
    /\ IsOk(codec_op.ret)
    /\ codec_op.ret[2] = codec_op.written[1]

\* The target the first onion segment of an address stands for, written out:
\* the address of tests::test_tor_address_string for the v3 hash, "abcdefgh"
\* for the v2 hash.
ExpectedTarget(addr) ==
    LET first == CHOOSE i \in DOMAIN addr :
                    /\ addr[i][1] \in {"onion", "onion3"}
                    /\ \A k \in 1..(i - 1) : addr[k][1] \notin {"onion", "onion3"}
    IN  IF addr[first][1] = "onion3"
        THEN <<"o", "a", "r", "c", "h", "y", "4", "t", "a", "m", "y", "d", "x", "c",
               "i", "t", "a", "k", "i", "6", "b", "c", "2", "v", "4", "l", "e", "z",
               "a", "6", "v", "3", "5", "i", "e", "z", "m", "u", "2", "c", "h", "g",
               "2", "b", "a", "p", "6", "3", "s", "v", "6", "f", "2", "d", "i", "d",
               ".", "o", "n", "i", "o", "n", ":", "1", "0", "2", "4">>
        ELSE <<"a", "b", "c", "d", "e", "f", "g", "h",
               ".", "o", "n", "i", "o", "n", ":", "8", "0">>

\* C21: to_onion_address finds a target exactly in the addresses that have an
\* onion or onion3 segment, and the target is the lower-case base32 of the
\* hash of the first such segment, ".onion:", and its port, whatever the
\* other segments are: dial hands that target, and no other, to do_tor_dial
\* and on to the proxy.
C21_OnionAddressEncoding ==
    transport_op.op = "dial" =>
        /\ HasOnion(transport_op.addr) <=>
              (transport_calls = <<>> \/ SocksCalls # {})
        /\ PendingFuture = "do_tor_dial" =>
              /\ HasOnion(transport_op.addr)
              /\ transport_op.ret[2].dest = ExpectedTarget(transport_op.addr)
        /\ \A i \in SocksCalls :
              transport_calls[i].dest = ExpectedTarget(transport_op.addr)

\* dial of the test's address, an onion3 segment followed by a p2p segment,
\* has returned the future for the test's target.
C21_Witness ==
    /\ transport_op.op = "dial"
    /\ transport_op.addr = <<<<"onion3", Onion3Hash, 1024>>, <<"p2p", 1>>>>
    /\ PendingFuture = "do_tor_dial"
    /\ transport_op.ret[2].dest = ExpectedTarget(transport_op.addr)
    /\ Len(transport_op.ret[2].dest) = 67

\* C23: dial of an address with an onion or onion3 segment calls nothing but
\* the SOCKS5 proxy, at the loopback address and the configured port, once,
\* when the future runs; the inner transport's dial is not called; a failure
\* of the proxy comes back as a connection-refused error.
C23_OnionDialsThroughProxy ==
    (transport_op.op = "dial" /\ HasOnion(transport_op.addr)) =>
        /\ Len(transport_calls) <= 1
        /\ \A i \in DOMAIN transport_calls :
              /\ transport_calls[i].callee = "Socks5Stream::connect"
              /\ transport_calls[i].sock = <<<<127, 0, 0, 1>>, transport_op.self.socks_port>>
        /\ IF IsOk(transport_op.ret)
           THEN /\ transport_op.ret[2].kind \in {"do_tor_dial", "TcpStream"}
                /\ transport_op.ret[2].kind = "TcpStream" <=> Len(transport_calls) = 1
           ELSE /\ transport_op.ret[2] = "ConnectionRefused"
                /\ Len(transport_calls) = 1

\* The proxy on the port that is not the default has failed the dial of an
\* address whose onion segment comes second.
C23_Witness ==
    /\ transport_op.op = "dial"
    /\ Len(transport_op.addr) = 2
    /\ transport_op.addr[1][1] = "ip4"
    /\ transport_op.addr[2][1] = "onion"
    /\ transport_op.self.socks_port = 9150
    /\ transport_op.ret = Err("ConnectionRefused")
    /\ Len(transport_calls) = 1

\* C22: the transport yields (peer, multiplexer) only for a connection that
\* went through the connect, the noise handshake and the choice of the
\* multiplexer, in that order, in less than the timeout, and the peer is the
\* one the handshake authenticated; a connection whose handshake failed or
\* whose upgrades were still running when the time was up has an error and
\* yields nothing, then or later.
C22_YieldsOnlyUpgraded ==
    [][/\ IsOk(upgrade'.ret) =>
             /\ upgrade'.stage = "yielded"
             /\ upgrade'.elapsed < UPGRADE_TIMEOUT
             /\ Len(upgrade'.steps) >= 2
             /\ SubSeq(upgrade'.steps, Len(upgrade'.steps) - 1, Len(upgrade'.steps))
                   \in {<<"noise", "yamux">>, <<"noise", "mplex">>}
             /\ Len(upgrade'.steps) = 3 => upgrade'.steps[1] = "connect"
             /\ upgrade'.peer \in {"12D3KooWPD4u", "12D3KooWBob"}
             /\ upgrade'.ret[2] = <<upgrade'.peer, upgrade'.steps[Len(upgrade'.steps)]>>
       /\ (authenticate_noise /\ upgrade'.peer = "") => upgrade'.stage = "failed"
       /\ (Upgrading /\ upgrade.elapsed = UPGRADE_TIMEOUT) =>
             (upgrade'.stage = "failed" /\ upgrade'.ret[2] = "Timeout")
       /\ upgrade.stage = "failed" =>
             (~IsOk(upgrade.ret) /\ (upgrade'.stage = "failed" => upgrade' = upgrade))
      ]_vars

\* A connection has been yielded with mplex one second before the time was
\* up.
C22_Witness ==
    /\ upgrade.stage = "yielded"
    /\ upgrade.elapsed = UPGRADE_TIMEOUT - 1
    /\ upgrade.steps = <<"connect", "noise", "mplex">>
    /\ upgrade.ret = Ok(<<"12D3KooWBob", "mplex">>)

C25_PeerIdInsertsNeverConflict ==
    \A p \in Procs :
        call[p].op = "insert_peer_id" =>
            /\ pc[p] \in {"flush", "done"}
            /\ pc[p] = "flush" => ret[p] = Pending
            /\ pc[p] = "done" => ret[p] \in {Ok(Unit), Err(CouldNotFlush)}
            /\ ~superseded[p] => get_peer_id(call[p].swap_id) = Ok(call[p].peer_id)
            /\ get_peer_id(call[p].swap_id) # Err(NotFound)

\* Two calls with different peer ids for one id are both between their insert
\* and their flush; get_peer_id returns the peer id of the one that inserted
\* last.
C25_Witness ==
    \E p, q \in Procs :
        /\ call[p].op = "insert_peer_id" /\ call[q].op = "insert_peer_id"
        /\ call[p].swap_id = call[q].swap_id
        /\ call[p].peer_id # call[q].peer_id
        /\ pc[p] = "flush" /\ pc[q] = "flush"
        /\ superseded[p]
        /\ get_peer_id(call[q].swap_id) = Ok(call[q].peer_id)

\* The ids that have a record of the role.
IdsOfRole(role) == {swap_id \in Uuid : RoleOf(swap_id) = role}

\* result is Ok of a list that holds, once each, the (id, state) pairs of ids.
IsListOf(result, ids) ==
    /\ IsOk(result)
    /\ Len(result[2]) = Cardinality(ids)
    /\ {result[2][i] : i \in DOMAIN result[2]} =
          {<<swap_id, get_state(swap_id)[2].inner>> : swap_id \in ids}

\* C9: all_alice returns the NotAlice error when the store holds a Bob record,
\* wherever it is among the records, and otherwise every record, once; all_bob
\* likewise with the roles exchanged.
C9_RolePurity ==
    [][\A p \in Procs :
          /\ call_all_alice(p) =>
                IF IdsOfRole("Bob") # {} THEN ret'[p] = Err(NotAlice)
                ELSE IsListOf(ret'[p], IdsOfRole("Alice"))
          /\ call_all_bob(p) =>
                IF IdsOfRole("Alice") # {} THEN ret'[p] = Err(NotBob)
                ELSE IsListOf(ret'[p], IdsOfRole("Bob"))]_vars

\* C9's case: all_alice has failed on a store whose first record is Alice's
\* and whose last is Bob's.
C9_Witness ==
    \E p \in Procs :
        /\ pc[p] = "done" /\ call[p].op = "all_alice"
        /\ RoleOf(1) = "Alice"
        /\ RoleOf(NumUuids) = "Bob"
        /\ ret[p] = Err(NotAlice)

\* The ids that have an Alice record that is not Done.
UnfinishedIds ==
    {swap_id \in IdsOfRole("Alice") : get_state(swap_id)[2].inner # "Done"}

====
